---- MODULE Spec2Model ----
(***************************************************************************)
(* OptimizedAIModelManager (app/models/ai_models.py): lazy, lock-guarded   *)
(* loading of one embedding model, the blocking similarity computation,    *)
(* and its thread-pool-backed async wrapper.                               *)
(*                                                                         *)
(* Execution contexts ("procs") are caller threads and the pool's worker   *)
(* threads.  Every read or write of shared state (_model, _model_loaded,   *)
(* _lock, the pool queue, futures) is one step.  A condition such as       *)
(* `self._model_loaded and self._model is not None` reads _model_loaded    *)
(* first and reads _model only when the flag was true; it is one step here *)
(* because the flag short-circuits the second read when false.             *)
(***************************************************************************)
EXTENDS Integers, Sequences, FiniteSets, TLC

\* ---- bounds of the model ----
NCallers == 3

\* ---- program constants ----
max_workers_3 == 2 + 1
max_workers == 2

Callers == 1..NCallers
Workers == (NCallers + 1)..(NCallers + max_workers)
Procs   == Callers \cup Workers

\* ---- the embedding backend (external collaborator) ----
\* The texts are "" (empty), "a" and "b" (ordinary) and "x" (a text on which
\* encode raises); these are the text pairs passed to the similarity API.
Inputs == {<<"", "a">>, <<"a", "">>, <<"a", "b">>, <<"a", "x">>}

RawEmbedding(t) == IF t = "a" THEN <<6, 8>> ELSE IF t = "b" THEN <<8, 6>> ELSE <<0, 0>>

EncodeFaults(a, b) == a = "x" \/ b = "x"

Norm(v) == CHOOSE n \in 0..20 : n * n = v[1] * v[1] + v[2] * v[2]

\* normalize_embeddings=True: unit length, here on a fixed-point scale of 5
\* (so a dot product of 25 stands for 1.0).
Normalize(v) == <<(v[1] * 5) \div Norm(v), (v[2] * 5) \div Norm(v)>>

Encode(a, b) == <<Normalize(RawEmbedding(a)), Normalize(RawEmbedding(b))>>

Dot_first_component(u, v) == u[1] * v[1] + u[2] * v[1]

Dot(u, v) == u[1] * v[1] + u[2] * v[2]

\* ---- result values ----
NoRes     == <<"none", 0>>
Raised    == <<"raised", 0>>
Score(v)  == <<"score", v>>
Handle(h) == <<"handle", h>>

VARIABLES
    model,          \* _model: 0 is None, h > 0 the handle built by load attempt h
    modelLoaded,    \* _model_loaded
    lock,           \* _lock: 0 free, else the proc that holds it
    loadAttempts,   \* load counter: entries into the try block of _load_model_sync
    loadSuccesses,  \* attempts that reached `_model_loaded = True`
    loadFailures,   \* attempts that reached the except clause
    pc,             \* position of each proc
    kind,           \* per caller: the API it last called
    t1, t2,         \* text1, text2 of the running similarity call
    hnd,            \* local `model` of _calculate_similarity_sync (line 88)
    res,            \* per caller: what the last call returned or raised
    tookLock,       \* the running call acquired _lock
    blocked,        \* the running call waited at _lock while another attempt ran
    loadFail,       \* the running call's own load attempt failed
    queue,          \* the executor's work queue (tasks named by their caller)
    task,           \* per caller: state of its work item / future
    fut,            \* per caller: the result stored in its future
    wk,             \* per worker: the task it runs (0 none)
    instance,       \* cls._instance: 0 is None, else the object created i-th
    initialized,    \* the instance has the attribute _initialized
    executor,       \* self._executor: 0 is None (the class attribute), else the pool created i-th
    instancesCreated, \* objects created by super().__new__
    poolsCreated,   \* ThreadPoolExecutor objects created
    model_ready,    \* app/main.py: the global model_ready
    sphase,         \* app/main.py: progress of startup_event
    shut,           \* app/main.py: shutdown_event has run
    resp            \* per caller: the HTTP status its request was answered with (0 none, 1 accepted)

vars == <<model, modelLoaded, lock, loadAttempts, loadSuccesses, loadFailures,
          pc, kind, t1, t2, hnd, res, tookLock, blocked, loadFail,
          queue, task, fut, wk,
          instance, initialized, executor, instancesCreated, poolsCreated,
          model_ready, sphase, shut, resp>>

mgr   == <<model, modelLoaded, lock>>
ctrs  == <<loadAttempts, loadSuccesses, loadFailures>>
pool  == <<queue, task, fut, wk>>
flags == <<tookLock, blocked, loadFail>>
ctor  == <<instance, initialized, executor, instancesCreated, poolsCreated>>
svc   == <<model_ready, sphase, shut, resp>>
ext   == <<ctor, svc>>

is_ready_handle_only == model # 0

is_ready == modelLoaded /\ model # 0

\* the call proc p is running is a similarity call (workers only run those)
InSim(p) == p \in Workers \/ kind[p] \in {"sync"}

\* main.py lines 30-32, before startup_event has run
InitService ==
    /\ model_ready = FALSE /\ sphase = "init" /\ shut = FALSE
    /\ resp = [c \in Callers |-> 0]

\* the class attributes of lines 16-20; no thread is inside the manager
InitManager ==
    /\ model = 0 /\ modelLoaded = FALSE /\ lock = 0
    /\ loadAttempts = 0 /\ loadSuccesses = 0 /\ loadFailures = 0
    /\ pc = [p \in Procs |-> "idle"]
    /\ kind = [c \in Callers |-> "none"]
    /\ t1 = [p \in Procs |-> ""] /\ t2 = [p \in Procs |-> ""]
    /\ hnd = [p \in Procs |-> 0]
    /\ res = [c \in Callers |-> NoRes]
    /\ tookLock = [p \in Procs |-> FALSE]
    /\ blocked = [p \in Procs |-> FALSE]
    /\ loadFail = [p \in Procs |-> FALSE]
    /\ queue = <<>>
    /\ task = [c \in Callers |-> "none"]
    /\ fut = [c \in Callers |-> NoRes]
    /\ wk = [w \in Workers |-> 0]

\* The state once app.models.ai_models has been imported: line 131 has
\* constructed the global ai_model_manager with its pool; nothing is loaded,
\* and the service has not started.
Init ==
    /\ instance = 1 /\ initialized = TRUE /\ executor = 1
    /\ instancesCreated = 1 /\ poolsCreated = 1
    /\ InitService
    /\ InitManager

\* Each caller thread makes one call of the API.
CanCall(c) == pc[c] = "idle"

\* The running call of proc p ends with result r: a caller thread gets it
\* directly; a worker stores it in the future of the task it ran
\* (run_in_executor's work item) and goes back to the queue.  A result nobody
\* awaits any more is dropped with its future.
Finish(p, r) ==
    /\ hnd' = [hnd EXCEPT ![p] = 0]
    /\ blocked' = [blocked EXCEPT ![p] = FALSE]
    /\ IF p \in Callers
       THEN /\ pc' = [pc EXCEPT ![p] = "done"]
            /\ res' = [res EXCEPT ![p] = r]
            /\ UNCHANGED <<t1, t2, task, fut, wk, loadFail, tookLock>>
       ELSE /\ pc' = [pc EXCEPT ![p] = "idle"]
            /\ task' = [task EXCEPT ![wk[p]] = "finished"]
            /\ fut' = [fut EXCEPT ![wk[p]] = IF pc[wk[p]] = "await" THEN r ELSE NoRes]
            /\ loadFail' = [loadFail EXCEPT ![wk[p]] = pc[wk[p]] = "await" /\ loadFail[p],
                                            ![p] = FALSE]
            /\ tookLock' = [tookLock EXCEPT ![p] = FALSE]
            /\ wk' = [wk EXCEPT ![p] = 0]
            /\ t1' = [t1 EXCEPT ![p] = ""]
            /\ t2' = [t2 EXCEPT ![p] = ""]
            /\ UNCHANGED res

Goto(p, l) == pc' = [pc EXCEPT ![p] = l]

\* ---- get_model (lines 76-80) ----

\* line 78: if not self._model_loaded or self._model is None
get_model_check_handle_only(p) ==
    /\ pc[p] = "gm78"
    /\ Goto(p, IF model = 0 THEN "ld40" ELSE "gm80")
    /\ UNCHANGED <<mgr, ctrs, kind, t1, t2, hnd, res, flags, pool>>
    /\ UNCHANGED ext

get_model_check_locked(p) ==
    /\ pc[p] = "gm78"
    /\ Goto(p, IF ~modelLoaded \/ model = 0 THEN "ld40" ELSE "ld43")
    /\ UNCHANGED <<mgr, ctrs, kind, t1, t2, hnd, res, flags, pool>>
    /\ UNCHANGED ext

get_model_check(p) ==
    /\ pc[p] = "gm78"
    /\ Goto(p, IF ~modelLoaded \/ model = 0 THEN "ld40" ELSE "gm80")
    /\ UNCHANGED <<mgr, ctrs, kind, t1, t2, hnd, res, flags, pool>>
    /\ UNCHANGED ext

\* line 80: return self._model.  For a get_model caller it is the result;
\* inside _calculate_similarity_sync it becomes the local `model` (line 88)
\* and the call goes on to lines 91-92: `with threading.Lock()` takes a lock
\* object created by this very call, so it never waits, and
\* model.encode([text1, text2], ...) starts.
get_model_return(p) ==
    /\ pc[p] = "gm80"
    /\ IF InSim(p)
       THEN /\ hnd' = [hnd EXCEPT ![p] = model]
            /\ Goto(p, "enc97")
            /\ UNCHANGED <<t1, t2, res, flags, pool>>
       ELSE Finish(p, Handle(model))
    /\ UNCHANGED <<mgr, ctrs, kind, queue>>
    /\ UNCHANGED ext

\* ---- _load_model_sync (lines 38-74) ----

\* positions inside the try block of a load attempt that has not failed yet
AttemptPcs == {"ld56", "ld63", "ld66"}

\* lines 40-41: lock-free fast path
load_fast_check(p) ==
    /\ pc[p] = "ld40"
    /\ IF modelLoaded /\ model # 0
       THEN Goto(p, "gm80") /\ UNCHANGED blocked
       ELSE /\ Goto(p, "ld43")
            /\ blocked' = [blocked EXCEPT ![p] = \E q \in Procs : pc[q] \in AttemptPcs]
    /\ UNCHANGED <<mgr, ctrs, kind, t1, t2, hnd, res, tookLock, loadFail, pool>>
    /\ UNCHANGED ext

\* line 43: with self._lock  (acquire; blocks while another proc holds it)
load_acquire_no_wait(p) ==
    /\ pc[p] = "ld43"
    /\ lock' = p
    /\ tookLock' = [tookLock EXCEPT ![p] = TRUE]
    /\ Goto(p, "ld44")
    /\ UNCHANGED <<model, modelLoaded, ctrs, kind, t1, t2, hnd, res, blocked, loadFail, pool>>
    /\ UNCHANGED ext

load_acquire(p) ==
    /\ pc[p] = "ld43"
    /\ lock = 0
    /\ lock' = p
    /\ tookLock' = [tookLock EXCEPT ![p] = TRUE]
    /\ Goto(p, "ld44")
    /\ UNCHANGED <<model, modelLoaded, ctrs, kind, t1, t2, hnd, res, blocked, loadFail, pool>>
    /\ UNCHANGED ext

\* the procs waiting at the lock while p's attempt runs
MarkBlocked(p) == [q \in Procs |-> IF q # p /\ pc[q] = "ld43" THEN TRUE ELSE blocked[q]]

\* line 44: if self._model_loaded and self._model is not None (under the lock)
LoadedUnderLock_unchecked == FALSE

LoadedUnderLock == modelLoaded /\ model # 0

\* lines 44-45: second check under the lock; when loaded, return (the with
\* block releases the lock); otherwise enter the try block: a load attempt.
load_locked_check(p) ==
    /\ pc[p] = "ld44"
    /\ IF LoadedUnderLock
       THEN /\ lock' = 0
            /\ Goto(p, "gm80")
            /\ UNCHANGED <<model, modelLoaded, ctrs, blocked>>
       ELSE /\ Goto(p, "ld56")
            /\ loadAttempts' = loadAttempts + 1
            /\ blocked' = MarkBlocked(p)
            /\ UNCHANGED <<mgr, loadSuccesses, loadFailures>>
    /\ UNCHANGED <<kind, t1, t2, hnd, res, tookLock, loadFail, pool>>
    /\ UNCHANGED ext

\* lines 48-60: os.makedirs and self._model = SentenceTransformer(...);
\* either may raise (missing files, incompatible cache, I/O failure).
load_construct(p) ==
    /\ pc[p] = "ld56"
    /\ \/ /\ model' = loadAttempts
          /\ Goto(p, "ld63")
       \/ /\ Goto(p, "ld73")
          /\ UNCHANGED model
    /\ UNCHANGED <<modelLoaded, lock, ctrs, kind, t1, t2, hnd, res, flags, pool>>
    /\ UNCHANGED ext

\* line 63: self._model.eval(), still inside the try block
load_eval(p) ==
    /\ pc[p] = "ld63"
    /\ \/ Goto(p, "ld66")
       \/ Goto(p, "ld73")
    /\ UNCHANGED <<mgr, ctrs, kind, t1, t2, hnd, res, flags, pool>>
    /\ UNCHANGED ext

\* line 66: self._model_loaded = True
load_set_loaded(p) ==
    /\ pc[p] = "ld66"
    /\ modelLoaded' = TRUE
    /\ loadSuccesses' = loadSuccesses + 1
    /\ Goto(p, "ld69")
    /\ UNCHANGED <<model, lock, loadAttempts, loadFailures, kind, t1, t2, hnd, res, flags, pool>>
    /\ UNCHANGED ext

\* line 69: return self._model; leaving the with block releases the lock
load_return(p) ==
    /\ pc[p] = "ld69"
    /\ lock' = 0
    /\ Goto(p, "gm80")
    /\ UNCHANGED <<model, modelLoaded, ctrs, kind, t1, t2, hnd, res, flags, pool>>
    /\ UNCHANGED ext

\* lines 71-73: except Exception: self._model_loaded = False
load_except(p) ==
    /\ pc[p] = "ld73"
    /\ modelLoaded' = FALSE
    /\ loadFailures' = loadFailures + 1
    /\ loadFail' = [loadFail EXCEPT ![p] = TRUE]
    /\ Goto(p, "ld74")
    /\ UNCHANGED <<model, lock, loadAttempts, loadSuccesses, kind, t1, t2, hnd, res, tookLock, blocked, pool>>
    /\ UNCHANGED ext

\* line 74: raise; leaving the with block releases the lock and the
\* exception unwinds through get_model.  Under _calculate_similarity_sync it
\* lands in `except Exception` (lines 103-105), which returns 0.0.
load_raise_keeps_lock(p) ==
    /\ pc[p] = "ld74"
    /\ UNCHANGED lock
    /\ Finish(p, IF InSim(p) THEN Score(0) ELSE Raised)
    /\ UNCHANGED <<model, modelLoaded, ctrs, kind, queue>>
    /\ UNCHANGED ext

load_raise(p) ==
    /\ pc[p] = "ld74"
    /\ lock' = 0
    /\ Finish(p, IF InSim(p) THEN Score(0) ELSE Raised)
    /\ UNCHANGED <<model, modelLoaded, ctrs, kind, queue>>
    /\ UNCHANGED ext

\* ---- _calculate_similarity_sync (lines 82-105) ----

\* line 85: if not text1 or not text2
EmptyInput_first_only(a, b) == a = ""

EmptyInput(a, b) == a = "" \/ b = ""

\* what lines 92-105 return once encode has ended: the dot product of the two
\* normalized embeddings, or 0.0 from `except Exception` when encode raised
Similarity_propagates(a, b) ==
    IF EncodeFaults(a, b) THEN Raised ELSE Score(Dot(Encode(a, b)[1], Encode(a, b)[2]))

Similarity(a, b) ==
    IF EncodeFaults(a, b) THEN Score(0) ELSE Score(Dot(Encode(a, b)[1], Encode(a, b)[2]))

\* lines 92-105: encode ends; np.dot, return float(similarity) / return 0.0
encode_end(p) ==
    /\ pc[p] = "enc97"
    /\ Finish(p, Similarity(t1[p], t2[p]))
    /\ UNCHANGED <<mgr, ctrs, kind, queue>>
    /\ UNCHANGED ext

\* ---- the public API, called from caller threads ----

StartCall(c, k, a, b, l) ==
    /\ CanCall(c)
    /\ kind' = [kind EXCEPT ![c] = k]
    /\ t1' = [t1 EXCEPT ![c] = a]
    /\ t2' = [t2 EXCEPT ![c] = b]
    /\ res' = [res EXCEPT ![c] = NoRes]
    /\ tookLock' = [tookLock EXCEPT ![c] = FALSE]
    /\ blocked' = [blocked EXCEPT ![c] = FALSE]
    /\ loadFail' = [loadFail EXCEPT ![c] = FALSE]
    /\ Goto(c, l)

\* get_model() called directly (lines 76-80)
call_get_model(c) ==
    /\ StartCall(c, "get_model", "", "", "gm78")
    /\ UNCHANGED <<mgr, ctrs, hnd, pool>>
    /\ UNCHANGED ext

\* calculate_similarity (lines 117-119): runs _calculate_similarity_sync in
\* the calling thread; lines 85-86 return 0.0 at once for an empty text.
calculate_similarity(c, a, b) ==
    /\ CanCall(c)
    /\ kind' = [kind EXCEPT ![c] = "sync"]
    /\ t1' = [t1 EXCEPT ![c] = a]
    /\ t2' = [t2 EXCEPT ![c] = b]
    /\ res' = [res EXCEPT ![c] = IF EmptyInput(a, b) THEN Score(0) ELSE NoRes]
    /\ tookLock' = [tookLock EXCEPT ![c] = FALSE]
    /\ blocked' = [blocked EXCEPT ![c] = FALSE]
    /\ loadFail' = [loadFail EXCEPT ![c] = FALSE]
    /\ Goto(c, IF EmptyInput(a, b) THEN "done" ELSE "gm78")
    /\ UNCHANGED <<mgr, ctrs, hnd, pool>>
    /\ UNCHANGED ext

\* calculate_similarity_async (lines 107-115): run_in_executor submits
\* _calculate_similarity_sync(text1, text2) to self._executor and the
\* coroutine awaits the future
\* (the positional arguments handed to run_in_executor)
TaskArgs_first_twice(a, b) == <<a, a>>

TaskArgs(a, b) == <<a, b>>

calculate_similarity_async(c, a, b) ==
    /\ StartCall(c, "async", a, b, "await")
    /\ queue' = Append(queue, c)
    /\ task' = [task EXCEPT ![c] = "queued"]
    /\ fut' = [fut EXCEPT ![c] = NoRes]
    /\ UNCHANGED <<mgr, ctrs, hnd, wk>>
    /\ UNCHANGED ext

\* ---- the WorkerPool: ThreadPoolExecutor(max_workers=2) (line 35) ----

\* An idle worker thread takes the oldest work item.  A work item whose
\* future was cancelled while it was still queued is dropped without running.
\* Otherwise the worker runs _calculate_similarity_sync(text1, text2), whose
\* lines 85-86 return 0.0 at once for an empty text.
worker_take(w) ==
    /\ pc[w] = "idle"
    /\ queue # <<>>
    /\ queue' = Tail(queue)
    /\ LET k == Head(queue)
           a == TaskArgs(t1[k], t2[k])[1]
           b == TaskArgs(t1[k], t2[k])[2]
       IN
       IF task[k] = "cancelled"
       THEN UNCHANGED <<pc, task, fut, wk, t1, t2, flags>>
       ELSE IF EmptyInput(a, b)
       THEN /\ task' = [task EXCEPT ![k] = "finished"]
            /\ fut' = [fut EXCEPT ![k] = IF pc[k] = "await" THEN Score(0) ELSE NoRes]
            /\ loadFail' = [loadFail EXCEPT ![k] = FALSE]
            /\ UNCHANGED <<pc, wk, t1, t2, tookLock, blocked>>
       ELSE /\ task' = [task EXCEPT ![k] = "running"]
            /\ wk' = [wk EXCEPT ![w] = k]
            /\ t1' = [t1 EXCEPT ![w] = a]
            /\ t2' = [t2 EXCEPT ![w] = b]
            /\ tookLock' = [tookLock EXCEPT ![w] = FALSE]
            /\ blocked' = [blocked EXCEPT ![w] = FALSE]
            /\ loadFail' = [loadFail EXCEPT ![w] = FALSE]
            /\ Goto(w, "gm78")
            /\ UNCHANGED fut
    /\ UNCHANGED <<mgr, ctrs, kind, hnd, res>>
    /\ UNCHANGED ext

\* line 110: the await resumes with the future's result
future_resolve(c) ==
    /\ pc[c] = "await"
    /\ task[c] = "finished"
    /\ res' = [res EXCEPT ![c] = fut[c]]
    /\ fut' = [fut EXCEPT ![c] = NoRes]
    /\ task' = [task EXCEPT ![c] = "none"]
    /\ Goto(c, "done")
    /\ UNCHANGED <<mgr, ctrs, kind, t1, t2, hnd, flags, queue, wk>>
    /\ UNCHANGED ext

\* The caller stops waiting without cancelling the future (a shielded wait
\* that timed out): the work item is untouched.
abandon_wait(c) ==
    /\ pc[c] = "await"
    /\ res' = [res EXCEPT ![c] = NoRes]
    /\ fut' = [fut EXCEPT ![c] = NoRes]
    /\ Goto(c, "done")
    /\ UNCHANGED <<mgr, ctrs, kind, t1, t2, hnd, flags, queue, task, wk>>
    /\ UNCHANGED ext

\* The awaiting coroutine is cancelled at line 110 (asyncio.wait_for timeout,
\* task.cancel()).  The future returned by run_in_executor is chained to the
\* executor's future, so the cancellation reaches the work item: it is
\* cancelled if no worker has started it, and has no effect once it runs.
cancel_wait_interrupts(c) ==
    /\ pc[c] = "await"
    /\ res' = [res EXCEPT ![c] = NoRes]
    /\ fut' = [fut EXCEPT ![c] = NoRes]
    /\ task' = [task EXCEPT ![c] = "cancelled"]
    /\ Goto(c, "done")
    /\ UNCHANGED <<mgr, ctrs, kind, t1, t2, hnd, flags, queue, wk>>
    /\ UNCHANGED ext

cancel_wait(c) ==
    /\ pc[c] = "await"
    /\ res' = [res EXCEPT ![c] = NoRes]
    /\ fut' = [fut EXCEPT ![c] = NoRes]
    /\ task' = [task EXCEPT ![c] = IF task[c] = "queued" THEN "cancelled" ELSE task[c]]
    /\ Goto(c, "done")
    /\ UNCHANGED <<mgr, ctrs, kind, t1, t2, hnd, flags, queue, wk>>
    /\ UNCHANGED ext

\* ---- the state machine ----

\* The service's callers of the manager (app/main.py): the startup hook's
\* thread calls get_model(), the /similarity/sync handler calls
\* calculate_similarity(), the /similarity handler calls
\* calculate_similarity_async().  Caller c is of the kind c % 3 selects.
CallerKind(c) ==
    IF c % 3 = 1 THEN "get_model" ELSE IF c % 3 = 2 THEN "sync" ELSE "async"

Next ==
    \/ \E c \in Callers : CallerKind(c) = "get_model" /\ call_get_model(c)
    \/ \E c \in Callers : \E i \in Inputs :
           CallerKind(c) = "sync" /\ calculate_similarity(c, i[1], i[2])
    \/ \E c \in Callers : \E i \in Inputs :
           CallerKind(c) = "async" /\ calculate_similarity_async(c, i[1], i[2])
    \/ \E p \in Procs : get_model_check(p)
    \/ \E p \in Procs : get_model_return(p)
    \/ \E p \in Procs : load_fast_check(p)
    \/ \E p \in Procs : load_acquire(p)
    \/ \E p \in Procs : load_locked_check(p)
    \/ \E p \in Procs : load_construct(p)
    \/ \E p \in Procs : load_eval(p)
    \/ \E p \in Procs : load_set_loaded(p)
    \/ \E p \in Procs : load_return(p)
    \/ \E p \in Procs : load_except(p)
    \/ \E p \in Procs : load_raise(p)
    \/ \E p \in Procs : encode_end(p)
    \/ \E w \in Workers : worker_take(w)
    \/ \E c \in Callers : future_resolve(c)
    \/ \E c \in Callers : abandon_wait(c)
    \/ \E c \in Callers : cancel_wait(c)

Spec == Init /\ [][Next]_vars

\* what a proc does inside the manager, whoever called
ManagerStep(p) ==
    \/ get_model_check(p)
    \/ get_model_return(p)
    \/ load_fast_check(p)
    \/ load_acquire(p)
    \/ load_locked_check(p)
    \/ load_construct(p)
    \/ load_eval(p)
    \/ load_set_loaded(p)
    \/ load_return(p)
    \/ load_except(p)
    \/ load_raise(p)
    \/ encode_end(p)

\* every caller is a thread that calls get_model()
NextLoad ==
    \/ \E c \in Callers : call_get_model(c)
    \/ \E c \in Callers : get_model_check(c)
    \/ \E c \in Callers : get_model_return(c)
    \/ \E c \in Callers : load_fast_check(c)
    \/ \E c \in Callers : load_acquire(c)
    \/ \E c \in Callers : load_locked_check(c)
    \/ \E c \in Callers : load_construct(c)
    \/ \E c \in Callers : load_eval(c)
    \/ \E c \in Callers : load_set_loaded(c)
    \/ \E c \in Callers : load_return(c)
    \/ \E c \in Callers : load_except(c)
    \/ \E c \in Callers : load_raise(c)

SpecLoad == Init /\ [][NextLoad]_vars

\* every caller is a thread that calls get_model() or calculate_similarity()
NextSync ==
    \/ NextLoad
    \/ \E c \in Callers : \E i \in Inputs : calculate_similarity(c, i[1], i[2])
    \/ \E c \in Callers : encode_end(c)

SpecSync == Init /\ [][NextSync]_vars

\* every caller is a coroutine that calls calculate_similarity_async(); the
\* pool's workers run the calls
PoolInputs == {<<"", "a">>, <<"a", "b">>}

NextPool ==
    \/ \E c \in Callers : \E i \in PoolInputs : calculate_similarity_async(c, i[1], i[2])
    \/ \E w \in Workers : worker_take(w)
    \/ \E w \in Workers : ManagerStep(w)
    \/ \E c \in Callers : future_resolve(c)
    \/ \E c \in Callers : abandon_wait(c)
    \/ \E c \in Callers : cancel_wait(c)

SpecPool == Init /\ [][NextPool]_vars

\* the pool under the scheduling the runtime gives: a worker thread that can
\* take a step eventually takes it; callers are under no obligation
FairSpec ==
    /\ Init
    /\ [][NextPool]_vars
    /\ \A w \in Workers : WF_vars(worker_take(w)) /\ WF_vars(ManagerStep(w))

\* every caller is a thread that calls calculate_similarity() on a pair of
\* non-empty texts: the odd callers pass the pair as it is, the even callers
\* pass its texts in the other order
SymInputs == {<<"a", "b">>, <<"a", "x">>}

Ordered(c, i) == IF c % 2 = 1 THEN i ELSE <<i[2], i[1]>>

NextSym ==
    \/ \E c \in Callers : \E i \in SymInputs :
           calculate_similarity(c, Ordered(c, i)[1], Ordered(c, i)[2])
    \/ \E c \in Callers : ManagerStep(c)

SpecSym == Init /\ [][NextSym]_vars

\* ======================= the HTTP boundary (app/main.py) =======================

\* The thread of the default executor that runs load_model (line 138).
StartupThread == 1

\* Every other caller is one HTTP request: to /api/v1/similarity/sync when its
\* number is even, to /api/v1/similarity when it is odd.
ServiceKind(c) ==
    IF c = StartupThread THEN "startup" ELSE IF c % 2 = 0 THEN "sync" ELSE "async"

Requests == Callers \ {StartupThread}

\* The warm-up pair of lines 131-132: two fixed non-empty texts.  Whether
\* encode raises on them is a property of the backend that was loaded.
WarmupInputs == {<<"a", "b">>, <<"a", "x">>}

\* GET /health (lines 48-54)
health_check ==
    [status |-> IF model_ready THEN "healthy" ELSE "loading", model_ready |-> model_ready]

\* The handlers and hooks are coroutines of one event loop thread: a
\* coroutine keeps the thread from where it starts or resumes to its next
\* await.  A request handler has no await between its check of model_ready
\* and its answer except line 72, the await of calculate_similarity_async;
\* the handler of /similarity/sync calls calculate_similarity (line 103) on
\* the loop thread itself.
HoldsLoop(c) == c \in Requests /\ resp[c] = 1 /\ pc[c] # "await"

\* the loop thread can run a step of coroutine c (0: a lifecycle hook)
LoopFree(c) == \A d \in Requests : d # c => ~HoldsLoop(d)

\* startup_event, lines 117-138: hands load_model to the default executor and
\* awaits it
startup_event ==
    /\ LoopFree(0)
    /\ sphase = "init"
    /\ sphase' = "submitted"
    /\ UNCHANGED <<model_ready, shut, resp, ctor>>
    /\ UNCHANGED <<mgr, ctrs, pc, kind, t1, t2, hnd, res, flags, pool>>

\* load_model, line 127: model = ai_model_manager.get_model()
startup_get_model ==
    /\ sphase = "submitted"
    /\ call_get_model(StartupThread)

\* load_model, lines 130-133: get_model() returned, so the warm-up
\* calculate_similarity(...) starts in the same thread
startup_warmup(a, b) ==
    /\ sphase = "submitted"
    /\ pc[StartupThread] = "done" /\ kind[StartupThread] = "get_model"
    /\ res[StartupThread] # Raised
    /\ sphase' = "warmup"
    /\ kind' = [kind EXCEPT ![StartupThread] = "sync"]
    /\ t1' = [t1 EXCEPT ![StartupThread] = a]
    /\ t2' = [t2 EXCEPT ![StartupThread] = b]
    /\ res' = [res EXCEPT ![StartupThread] = NoRes]
    /\ tookLock' = [tookLock EXCEPT ![StartupThread] = FALSE]
    /\ Goto(StartupThread, "gm78")
    /\ UNCHANGED <<model_ready, shut, resp, ctor>>
    /\ UNCHANGED <<mgr, ctrs, hnd, blocked, loadFail, pool>>

\* lines 138-140: load_model returned test_similarity, whatever its value:
\* model_ready = True
startup_ready ==
    /\ LoopFree(0)
    /\ sphase = "warmup"
    /\ pc[StartupThread] = "done"
    /\ res[StartupThread] # Raised
    /\ model_ready' = TRUE
    /\ sphase' = "ready"
    /\ UNCHANGED <<shut, resp, ctor>>
    /\ UNCHANGED <<mgr, ctrs, pc, kind, t1, t2, hnd, res, flags, pool>>

\* lines 145-147: load_model raised: model_ready = False
startup_failed_sets_ready ==
    /\ LoopFree(0)
    /\ sphase \in {"submitted", "warmup"}
    /\ pc[StartupThread] = "done"
    /\ res[StartupThread] = Raised
    /\ model_ready' = TRUE
    /\ sphase' = "failed"
    /\ UNCHANGED <<shut, resp, ctor>>
    /\ UNCHANGED <<mgr, ctrs, pc, kind, t1, t2, hnd, res, flags, pool>>

startup_failed ==
    /\ LoopFree(0)
    /\ sphase \in {"submitted", "warmup"}
    /\ pc[StartupThread] = "done"
    /\ res[StartupThread] = Raised
    /\ model_ready' = FALSE
    /\ sphase' = "failed"
    /\ UNCHANGED <<shut, resp, ctor>>
    /\ UNCHANGED <<mgr, ctrs, pc, kind, t1, t2, hnd, res, flags, pool>>

\* shutdown_event, lines 149-153.  The server runs it once, after
\* startup_event has returned.
shutdown_event_keeps_flag ==
    /\ LoopFree(0)
    /\ sphase \in {"ready", "failed"}
    /\ ~shut
    /\ shut' = TRUE
    /\ UNCHANGED <<model_ready, sphase, resp, ctor>>
    /\ UNCHANGED <<mgr, ctrs, pc, kind, t1, t2, hnd, res, flags, pool>>

shutdown_event ==
    /\ LoopFree(0)
    /\ sphase \in {"ready", "failed"}
    /\ ~shut
    /\ model_ready' = FALSE
    /\ shut' = TRUE
    /\ UNCHANGED <<sphase, resp, ctor>>
    /\ UNCHANGED <<mgr, ctrs, pc, kind, t1, t2, hnd, res, flags, pool>>

\* lines 60-64 and 96-97: if not model_ready: raise HTTPException(503).
\* A request may arrive in any state of the service.
http_gate_on_manager(c) ==
    /\ LoopFree(c)
    /\ c \in Requests
    /\ resp[c] = 0 /\ pc[c] = "idle"
    /\ resp' = [resp EXCEPT ![c] = IF is_ready THEN 1 ELSE 503]
    /\ UNCHANGED <<model_ready, sphase, shut, ctor>>
    /\ UNCHANGED <<mgr, ctrs, pc, kind, t1, t2, hnd, res, flags, pool>>

http_gate_open(c) ==
    /\ LoopFree(c)
    /\ c \in Requests
    /\ resp[c] = 0 /\ pc[c] = "idle"
    /\ resp' = [resp EXCEPT ![c] = 1]
    /\ UNCHANGED <<model_ready, sphase, shut, ctor>>
    /\ UNCHANGED <<mgr, ctrs, pc, kind, t1, t2, hnd, res, flags, pool>>

http_gate(c) ==
    /\ LoopFree(c)
    /\ c \in Requests
    /\ resp[c] = 0 /\ pc[c] = "idle"
    /\ resp' = [resp EXCEPT ![c] = IF model_ready THEN 1 ELSE 503]
    /\ UNCHANGED <<model_ready, sphase, shut, ctor>>
    /\ UNCHANGED <<mgr, ctrs, pc, kind, t1, t2, hnd, res, flags, pool>>

\* line 72: await ai_model_manager.calculate_similarity_async(cv_text, job_text)
\* line 103: ai_model_manager.calculate_similarity(cv_text, job_text)
http_call_on_loop(c, a, b) ==
    /\ LoopFree(c)
    /\ c \in Requests
    /\ resp[c] = 1
    /\ calculate_similarity(c, a, b)

http_call(c, a, b) ==
    /\ LoopFree(c)
    /\ c \in Requests
    /\ resp[c] = 1
    /\ IF ServiceKind(c) = "sync"
       THEN calculate_similarity(c, a, b)
       ELSE calculate_similarity_async(c, a, b)

\* lines 79-90 and 105-114: the answer: "status": "success" with the score,
\* or 500 when the call raised
http_respond(c) ==
    /\ LoopFree(c)
    /\ c \in Requests
    /\ resp[c] = 1 /\ pc[c] = "done"
    /\ resp' = [resp EXCEPT ![c] = IF res[c] = Raised THEN 500 ELSE 200]
    /\ UNCHANGED <<model_ready, sphase, shut, ctor>>
    /\ UNCHANGED <<mgr, ctrs, pc, kind, t1, t2, hnd, res, flags, pool>>

\* the service: the startup hook's thread, the requests, the pool's workers
NextService ==
    \/ startup_event
    \/ startup_get_model
    \/ \E i \in WarmupInputs : startup_warmup(i[1], i[2])
    \/ startup_ready
    \/ startup_failed
    \/ shutdown_event
    \/ \E c \in Requests : http_gate(c)
    \/ \E c \in Requests : \E i \in Inputs : http_call(c, i[1], i[2])
    \/ \E c \in Requests : http_respond(c)
    \/ \E c \in Requests : LoopFree(c) /\ future_resolve(c)
    \/ \E w \in Workers : worker_take(w)
    \/ \E p \in Procs : ManagerStep(p)

SpecService == Init /\ [][NextService]_vars

\* ======================= construction of the singleton =======================
\* OptimizedAIModelManager() runs __new__ (lines 22-27) and then __init__
\* (lines 29-36) on what __new__ returned.

\* The thread that imports app.models.ai_models first: it executes line 131,
\* the first construction, while Python's import lock keeps every other
\* thread from reaching the class.
Importer == 1

CtorPcs == {"new24", "new25", "init30", "init32", "init35"}

Imported == kind[Importer] # "none" /\ pc[Importer] \notin CtorPcs

\* what a caller finds in self._executor of the manager it was given
Pool(n) == <<"pool", n>>

\* the state before the module is imported: the class attributes of lines 16-20
InitCtor ==
    /\ instance = 0 /\ initialized = FALSE /\ executor = 0
    /\ instancesCreated = 0 /\ poolsCreated = 0
    /\ InitService
    /\ InitManager

\* line 23: if cls._instance is None; otherwise line 27 returns the instance
\* and __init__ starts
new_check(c) ==
    /\ pc[c] = "idle" /\ kind[c] = "none"
    /\ c = Importer \/ Imported
    /\ kind' = [kind EXCEPT ![c] = "ctor"]
    /\ Goto(c, IF instance = 0 THEN "new24" ELSE "init30")
    /\ UNCHANGED <<mgr, ctrs, t1, t2, hnd, res, flags, pool, ctor, svc>>

\* line 24: with cls._lock
new_acquire(c) ==
    /\ pc[c] = "new24"
    /\ lock = 0
    /\ lock' = c
    /\ Goto(c, "new25")
    /\ UNCHANGED <<model, modelLoaded, ctrs, kind, t1, t2, hnd, res, flags, pool, ctor, svc>>

\* lines 25-27: under the lock, create the instance if there is none yet;
\* leaving the with block releases the lock; return cls._instance
new_create(c) ==
    /\ pc[c] = "new25"
    /\ IF instance = 0
       THEN /\ instance' = instancesCreated + 1
            /\ instancesCreated' = instancesCreated + 1
       ELSE UNCHANGED <<instance, instancesCreated>>
    /\ lock' = 0
    /\ Goto(c, "init30")
    /\ UNCHANGED <<model, modelLoaded, ctrs, kind, t1, t2, hnd, res, flags, pool>>
    /\ UNCHANGED <<initialized, executor, poolsCreated, svc>>

\* lines 30-31: if hasattr(self, '_initialized'): return.  The constructor
\* call then returns the manager, whose _executor the caller finds as it is.
init_check_always(c) ==
    /\ pc[c] = "init30"
    /\ Goto(c, "init32")
    /\ UNCHANGED <<mgr, ctrs, kind, t1, t2, hnd, res, flags, pool, ctor, svc>>

init_check(c) ==
    /\ pc[c] = "init30"
    /\ IF initialized
       THEN /\ Goto(c, "idle")
            /\ res' = [res EXCEPT ![c] = Pool(executor)]
       ELSE /\ Goto(c, "init32")
            /\ UNCHANGED res
    /\ UNCHANGED <<mgr, ctrs, kind, t1, t2, hnd, flags, pool, ctor, svc>>

\* line 32: self._initialized = True
init_set_initialized(c) ==
    /\ pc[c] = "init32"
    /\ initialized' = TRUE
    /\ Goto(c, "init35")
    /\ UNCHANGED <<mgr, ctrs, kind, t1, t2, hnd, res, flags, pool>>
    /\ UNCHANGED <<instance, executor, instancesCreated, poolsCreated, svc>>

\* line 35: self._executor = ThreadPoolExecutor(max_workers=2, ...); the
\* constructor call returns
init_create_pool(c) ==
    /\ pc[c] = "init35"
    /\ poolsCreated' = poolsCreated + 1
    /\ executor' = poolsCreated + 1
    /\ res' = [res EXCEPT ![c] = Pool(poolsCreated + 1)]
    /\ Goto(c, "idle")
    /\ UNCHANGED <<mgr, ctrs, kind, t1, t2, hnd, flags, pool>>
    /\ UNCHANGED <<instance, initialized, instancesCreated, svc>>

\* every caller is a thread that constructs OptimizedAIModelManager() and
\* then calls get_model() on the manager it was given
NextCtor ==
    \/ \E c \in Callers : new_check(c)
    \/ \E c \in Callers : new_acquire(c)
    \/ \E c \in Callers : new_create(c)
    \/ \E c \in Callers : init_check(c)
    \/ \E c \in Callers : init_set_initialized(c)
    \/ \E c \in Callers : init_create_pool(c)
    \/ \E c \in Callers : kind[c] = "ctor" /\ call_get_model(c)
    \/ \E c \in Callers : get_model_check(c)
    \/ \E c \in Callers : get_model_return(c)
    \/ \E c \in Callers : load_fast_check(c)
    \/ \E c \in Callers : load_acquire(c)
    \/ \E c \in Callers : load_locked_check(c)
    \/ \E c \in Callers : load_construct(c)
    \/ \E c \in Callers : load_eval(c)
    \/ \E c \in Callers : load_set_loaded(c)
    \/ \E c \in Callers : load_return(c)
    \/ \E c \in Callers : load_except(c)
    \/ \E c \in Callers : load_raise(c)

SpecCtor == InitCtor /\ [][NextCtor]_vars

\* ======================= the class-level lock =======================
\* cls._lock of __new__ (line 24) and self._lock of _load_model_sync (line 43)
\* are the same threading.Lock of line 17.

\* a step of thread c inside a constructor call or inside the manager
LockStep(c) ==
    \/ new_acquire(c)
    \/ new_create(c)
    \/ init_check(c)
    \/ init_set_initialized(c)
    \/ init_create_pool(c)
    \/ ManagerStep(c)

\* every caller is a thread that constructs OptimizedAIModelManager() and
\* then calls get_model() (odd callers) or calculate_similarity() (even
\* callers) on the manager it was given
NextLock ==
    \/ \E c \in Callers : new_check(c)
    \/ \E c \in Callers : kind[c] = "ctor" /\ c % 2 = 1 /\ call_get_model(c)
    \/ \E c \in Callers : \E i \in SymInputs :
           kind[c] = "ctor" /\ c % 2 = 0 /\ calculate_similarity(c, i[1], i[2])
    \/ \E c \in Callers : LockStep(c)

\* threads are scheduled fairly, and the backend's load and encode calls
\* terminate: a thread that can take a step eventually takes it
FairLock ==
    /\ InitCtor
    /\ [][NextLock]_vars
    /\ \A c \in Callers : WF_vars(LockStep(c))

\* ======================= properties =======================

Done(c, k) == kind[c] = k /\ pc[c] = "done"

\* no load attempt has raised so far
NoLoadFailed == loadFailures = 0 /\ \A p \in Procs : pc[p] \notin {"ld73", "ld74"}

\* C1: when N >= 2 callers invoke get_model() concurrently on an unloaded
\* manager and no load attempt fails, the backend load runs exactly once and
\* every caller gets the same model handle (SpecLoad).
C1_OneLoadOneHandle ==
    NoLoadFailed =>
        /\ loadAttempts <= 1
        /\ \A c \in Callers : Done(c, "get_model") =>
               /\ loadAttempts = 1
               /\ res[c] = Handle(1)
               /\ model = 1

\* all callers went through the lock (they all saw "not loaded" before the
\* load completed) and all have returned
C1_Witness ==
    /\ NoLoadFailed
    /\ loadAttempts = 1
    /\ \A c \in Callers : Done(c, "get_model") /\ tookLock[c] /\ res[c] = Handle(model)

\* positions of a proc that runs its own load attempt
OwnAttemptPcs == {"ld56", "ld63", "ld66", "ld69", "ld73", "ld74"}

\* C2 as stated: a caller that was blocked on the lock while a load attempt
\* ran never starts a load attempt of its own, whatever the outcome of the
\* attempt it waited for (SpecLoad).
C2_BlockedNeverLoads ==
    \A p \in Procs : blocked[p] => pc[p] \notin OwnAttemptPcs

\* C2 amended: load attempts never overlap and at most one succeeds; an
\* attempt is started only while no attempt has succeeded, so a caller that was
\* blocked during an attempt starts its own only after a failed one (SpecLoad).
C2_AttemptsSerialOneSuccess ==
    /\ Cardinality({p \in Procs : pc[p] \in OwnAttemptPcs}) <= 1
    /\ loadSuccesses <= 1
    /\ \A p \in Procs : pc[p] \in {"ld56", "ld63"} => loadSuccesses = 0 /\ ~modelLoaded
    /\ \A p \in Procs : blocked[p] /\ pc[p] \in OwnAttemptPcs => loadFailures >= 1

\* a caller that waited through a failed attempt runs the second attempt
C2_Witness ==
    \E p \in Procs : blocked[p] /\ pc[p] = "ld56" /\ loadFailures = 1 /\ loadAttempts = 2

\* C3: when a load attempt started by get_model() fails, the error reaches
\* that caller, the manager is left not loaded with the lock released, and a
\* get_model() call that later finds the manager not loaded starts a new
\* attempt (SpecLoad).
C3_FailedLoadRaisesAndResets ==
    [][\A p \in Callers :
          /\ (pc[p] = "ld74" /\ pc'[p] # "ld74" /\ kind[p] = "get_model") =>
                 /\ pc'[p] = "done"
                 /\ res'[p] = Raised
                 /\ lock' = 0
                 /\ ~is_ready'
          /\ (pc[p] = "ld44" /\ pc'[p] # "ld44" /\ loadFailures >= 1 /\ ~is_ready) =>
                 /\ pc'[p] = "ld56"
                 /\ loadAttempts' = loadAttempts + 1
      ]_vars

\* one caller got the error, a later attempt succeeded and its caller has
\* the handle of a READY manager
C3_Witness ==
    /\ is_ready
    /\ loadFailures >= 1
    /\ lock = 0
    /\ \E c, d \in Callers :
           /\ Done(c, "get_model") /\ res[c] = Raised
           /\ Done(d, "get_model") /\ res[d] = Handle(model)

\* C4: READY is terminal: once a load has succeeded, no step of any call
\* (get_model, calculate_similarity, calculate_similarity_async, encoding
\* faults included) unloads the manager or replaces the stored handle (Spec).
C4_ReadyIsTerminal ==
    [][(modelLoaded /\ model # 0) => (modelLoaded' /\ model' = model)]_vars

\* READY after one load, and calls of each kind have completed since, one of
\* them on a faulting input
C4_Witness ==
    /\ modelLoaded /\ model = 1 /\ loadAttempts = 1
    /\ \E c, d, e \in Callers :
           /\ Done(c, "get_model") /\ res[c] = Handle(1)
           /\ Done(d, "sync") /\ t2[d] = "x" /\ res[d] = Score(0) /\ ~loadFail[d]
           /\ Done(e, "async") /\ res[e] = Score(24)

\* C5: calculate_similarity with an empty first or second text returns 0.0
\* at once: the call never takes a step inside get_model, the loader or the
\* encoder, and the manager state is as before the call, loaded or not
\* (SpecSync).
C5_EmptyInputShortCircuit ==
    /\ [](\A c \in Callers : (kind[c] = "sync" /\ (t1[c] = "" \/ t2[c] = "")) =>
              /\ pc[c] = "done"
              /\ res[c] = Score(0)
              /\ ~tookLock[c] /\ ~loadFail[c] /\ hnd[c] = 0)
    /\ [][\A c \in Callers :
              (kind'[c] = "sync" /\ kind[c] # "sync" /\ (t1'[c] = "" \/ t2'[c] = "")) =>
                  /\ res'[c] = Score(0)
                  /\ UNCHANGED <<model, modelLoaded, lock, loadAttempts>>
       ]_vars

\* both empty-text cases have returned on a manager that never started a load
C5_Witness ==
    /\ ~modelLoaded /\ model = 0 /\ loadAttempts = 0
    /\ \E c, d \in Callers :
           /\ Done(c, "sync") /\ t1[c] = "" /\ t2[c] # "" /\ res[c] = Score(0)
           /\ Done(d, "sync") /\ t1[d] # "" /\ t2[d] = "" /\ res[d] = Score(0)

\* C6: when encode raises, calculate_similarity returns 0.0 and raises
\* nothing, the manager stays READY, and a call on a non-faulting input is
\* computed normally whatever faults other calls hit (SpecSync).
C6_EncodeFaultFailsSoft ==
    /\ [](\A c \in Callers : (Done(c, "sync") /\ ~loadFail[c]) =>
              /\ (t1[c] = "x" \/ t2[c] = "x") => res[c] = Score(0)
              /\ (t1[c] = "a" /\ t2[c] = "b") => res[c] = Score(24))
    /\ [][\A c \in Callers :
              (pc[c] = "enc97" /\ pc'[c] # "enc97" /\ (t1[c] = "x" \/ t2[c] = "x")) =>
                  /\ pc'[c] = "done"
                  /\ res'[c] = Score(0)
                  /\ modelLoaded' /\ model' = model /\ model # 0
       ]_vars

\* a call hit an encoding fault and got 0.0; the manager is READY and a call
\* on a good input got its score
C6_Witness ==
    /\ modelLoaded /\ model # 0
    /\ \E c, d \in Callers :
           /\ Done(c, "sync") /\ t2[c] = "x" /\ ~loadFail[c] /\ res[c] = Score(0)
           /\ Done(d, "sync") /\ t1[d] = "a" /\ t2[d] = "b" /\ res[d] = Score(24)

\* C7 as stated: when the load attempt triggered by calculate_similarity on
\* two non-empty texts fails, the caller observes the load failure as an error
\* and not as a score (SpecSync).
C7_LoadErrorVisibleToSimilarityCaller ==
    \A c \in Callers : (Done(c, "sync") /\ loadFail[c]) => res[c] = Raised

\* C8: for the same texts and the same outcome of loading,
\* calculate_similarity_async resolves to the value calculate_similarity
\* returns: empty texts, faulting inputs and ordinary inputs alike (Spec).
C8_AsyncEqualsSync ==
    \A c, d \in Callers :
        ( /\ Done(c, "sync") /\ Done(d, "async") /\ task[d] = "none"
          /\ t1[c] = t1[d] /\ t2[c] = t2[d]
          /\ loadFail[c] = loadFail[d] )
        => res[d] = res[c]

\* a blocking and an async call on the same ordinary input have both returned
C8_Witness ==
    \E c, d \in Callers :
        /\ Done(c, "sync") /\ Done(d, "async") /\ task[d] = "none"
        /\ t1[c] = "a" /\ t2[c] = "b" /\ t1[d] = "a" /\ t2[d] = "b"
        /\ ~loadFail[c] /\ ~loadFail[d]
        /\ res[c] = Score(24) /\ res[d] = Score(24)

InQueue(c) == \E i \in 1..Len(queue) : queue[i] = c

\* C9: however many coroutines call calculate_similarity_async, at most 2
\* of the submitted computations run at the same time; a call submitted while
\* both workers are busy is accepted and waits in the queue (SpecPool).
C9_AtMostTwoRunning ==
    /\ [](Cardinality({c \in Callers : task[c] = "running"}) <= 2)
    /\ [](Cardinality({w \in Workers : pc[w] # "idle"}) <= 2)
    /\ [](\A c \in Callers : pc[c] = "await" =>
              \/ task[c] = "queued" /\ InQueue(c)
              \/ task[c] = "running" /\ \E w \in Workers : wk[w] = c
              \/ task[c] = "finished")
    /\ [][\A c \in Callers :
              (pc[c] = "idle" /\ pc'[c] = "await"
                 /\ Cardinality({d \in Callers : task[d] = "running"}) = 2) =>
                  /\ task'[c] = "queued"
                  /\ queue' = Append(queue, c)
       ]_vars

\* both workers run a computation and a third call waits in the queue
C9_Witness ==
    /\ Cardinality({c \in Callers : task[c] = "running"}) = 2
    /\ \A w \in Workers : pc[w] # "idle"
    /\ \E c \in Callers : pc[c] = "await" /\ task[c] = "queued" /\ InQueue(c)

\* C10 as stated: every computation submitted to the pool eventually runs to
\* completion, also when its caller stops waiting on the future (FairSpec).
C10_SubmittedAlwaysCompletes ==
    \A c \in Callers : (task[c] = "queued") ~> (task[c] = "finished")

\* C10 amended: a computation a worker has started always runs to
\* completion, its caller waiting or not; a queued computation is eventually
\* started unless the awaiting coroutine is cancelled first, which cancels
\* the work item; nothing else removes a work item (FairSpec).
C10_StartedAlwaysCompletes ==
    /\ \A c \in Callers : (task[c] = "running") ~> (task[c] = "finished")
    /\ \A c \in Callers : (task[c] = "queued") ~> (task[c] \in {"finished", "cancelled"})
    /\ [][\A c \in Callers :
              /\ (task[c] = "running" /\ task'[c] # "running") => task'[c] = "finished"
              /\ (task[c] = "queued" /\ task'[c] = "cancelled") =>
                     (pc[c] = "await" /\ pc'[c] = "done")
              /\ (task[c] = "queued" /\ pc[c] = "done" /\ task'[c] # "queued") =>
                     task'[c] \in {"running", "finished"}
       ]_vars

\* more computations were pending than there are workers, every caller
\* stopped waiting, and all computations have completed all the same
C10_Witness ==
    /\ \A c \in Callers : kind[c] = "async" /\ pc[c] = "done" /\ res[c] = NoRes
    /\ \A c \in Callers : task[c] = "finished" /\ fut[c] = NoRes
    /\ \A c \in Callers : t1[c] # ""
    /\ loadAttempts >= 1

\* ---- C11 ----
\* C11: is_ready() is true exactly when a load attempt has succeeded.  It is
\* false while nothing was loaded, false while an attempt is inside the try
\* block (also once SentenceTransformer(...) has returned and self._model is
\* set, lines 56-63, before line 66 has run), false while an attempt is
\* failing and after it failed; and the loaded flag is never true with the
\* handle absent.
C11_ReadyIffLoadSucceeded ==
    /\ is_ready <=> loadSuccesses >= 1
    /\ modelLoaded => model # 0
    /\ \A p \in Procs : pc[p] \in {"ld56", "ld63", "ld66", "ld73", "ld74"} => ~is_ready
    /\ (loadSuccesses = 0 /\ loadFailures >= 1) => ~is_ready

\* an attempt that follows a failed one has constructed the backend object
\* and has not yet reached line 66: the handle is present, is_ready() is false
C11_Witness ==
    /\ loadFailures >= 1
    /\ model # 0 /\ ~modelLoaded
    /\ \E p \in Procs : pc[p] = "ld66"
    /\ ~is_ready

\* ---- C12 ----
\* C12: the global model_ready is false from the start until startup_event
\* has loaded the model, true from then until shutdown_event runs, and false
\* after it; it is true only with the model loaded; only the steps of
\* startup_event and shutdown_event change it, never a step of a request.
C12_FlagLifecycle ==
    /\ [](model_ready <=> (sphase = "ready" /\ ~shut))
    /\ [](model_ready => is_ready)
    /\ [](sphase \in {"init", "submitted", "warmup", "failed"} => ~model_ready)
    /\ [][ model_ready' # model_ready =>
             /\ \/ sphase = "warmup" /\ sphase' = "ready" /\ model_ready'
                \/ ~shut /\ shut' /\ ~model_ready'
             /\ resp' = resp /\ pc' = pc /\ res' = res ]_vars

\* the whole life of the flag has passed: loaded, served a request, shut down
C12_Witness ==
    /\ shut /\ ~model_ready
    /\ sphase = "ready" /\ is_ready
    /\ \E c \in Requests : resp[c] = 200

\* ---- C13 ----
\* C13 as stated: a similarity request is accepted exactly when is_ready() is
\* true at the moment the handler decides: rejected with the retryable
\* 'loading' answer (503) while is_ready() is false, accepted whenever
\* is_ready() is true.
C13_AcceptsIffManagerReady ==
    [][ \A c \in Requests :
          (resp[c] = 0 /\ resp'[c] # 0) =>
              /\ is_ready => resp'[c] = 1
              /\ ~is_ready => resp'[c] = 503 ]_vars

\* C13 as the code has it: a similarity request is accepted exactly when the
\* global model_ready is true at the moment the handler decides, and rejected
\* with 503 otherwise; model_ready true implies is_ready() true, so every
\* accepted request finds the manager loaded, while a request that arrives
\* with is_ready() true and model_ready false is rejected.
C13_AcceptsIffFlag ==
    /\ [][ \A c \in Requests :
             (resp[c] = 0 /\ resp'[c] # 0) =>
                 /\ model_ready => resp'[c] = 1
                 /\ ~model_ready => resp'[c] = 503 ]_vars
    /\ [](model_ready => is_ready)
    /\ [](\A c \in Requests : resp[c] \in {1, 200, 500} => is_ready)

\* one request was rejected although the manager was loaded (during the
\* warm-up), another was accepted and served
C13_Witness ==
    /\ \E c \in Requests : resp[c] = 503 /\ is_ready
    /\ \E c \in Requests : resp[c] = 200
    /\ ~shut

\* ---- C14 ----
\* C14: the pool is created exactly once per process.  Whatever number of
\* threads construct OptimizedAIModelManager(), also concurrently, there is
\* one instance and one ThreadPoolExecutor was created, and every thread
\* whose constructor call returned finds that pool in _executor, never None.
C14_OnePoolPerProcess ==
    /\ instancesCreated <= 1 /\ poolsCreated <= 1
    /\ Imported => /\ instance = 1 /\ instancesCreated = 1
                   /\ executor = 1 /\ poolsCreated = 1
    /\ \A c \in Callers :
           (kind[c] = "ctor" /\ pc[c] = "idle") => res[c] = <<"pool", 1>>

\* after the import, two threads are inside __init__ at the same time and a
\* third has its manager
C14_Witness ==
    /\ \E c, d \in Callers : c # d /\ pc[c] = "init30" /\ pc[d] = "init30"
    /\ kind[1] = "ctor" /\ pc[1] = "idle" /\ res[1] = <<"pool", 1>>

\* ---- C15 ----
\* C15: similarity is symmetric: two calls that got the model, one on the
\* non-empty texts (a, b) and one on (b, a), return the same score (the
\* backend is deterministic and embeds a text the same way in either position).
C15_Symmetric ==
    \A c, d \in Callers :
        ( /\ Done(c, "sync") /\ Done(d, "sync")
          /\ ~loadFail[c] /\ ~loadFail[d]
          /\ t1[c] # "" /\ t2[c] # ""
          /\ t1[d] = t2[c] /\ t2[d] = t1[c] )
        => res[c] = res[d]

\* both orders of two ordinary texts were scored, and both orders of a pair
\* on which encode raises
C15_Witness ==
    \E c, d \in Callers :
        /\ Done(c, "sync") /\ Done(d, "sync")
        /\ ~loadFail[c] /\ ~loadFail[d]
        /\ t1[c] = "a" /\ t2[c] = "b" /\ t1[d] = "b" /\ t2[d] = "a"
        /\ res[c] = <<"score", 24>> /\ res[d] = <<"score", 24>>

\* ---- C16 ----
\* the state of the manager and of its pool
ManagerState == <<model, modelLoaded, lock, loadAttempts, loadSuccesses, loadFailures, queue, task, wk>>

\* C16: while model_ready is false (before startup has completed, after a
\* failed startup load, after shutdown) a request to either similarity
\* endpoint is answered 503 without any call of the manager: the step that
\* rejects it leaves the manager as it was, the rejected request never enters
\* the manager nor submits a task; and /health answers with status 'loading'.
C16_RejectsWithoutTouchingManager ==
    /\ [][ \A c \in Requests :
             (resp[c] = 0 /\ resp'[c] # 0 /\ ~model_ready) =>
                 /\ resp'[c] = 503
                 /\ ManagerState' = ManagerState
                 /\ pc' = pc /\ kind' = kind ]_vars
    /\ [](\A c \in Requests :
             resp[c] = 503 => /\ pc[c] = "idle" /\ kind[c] = "none"
                              /\ task[c] = "none" /\ res[c] = <<"none", 0>>)
    /\ [](~model_ready => health_check.status = "loading" /\ ~health_check.model_ready)

\* a request to each endpoint was rejected, one after the startup load had
\* failed, and nothing was loaded for them
C16_Witness ==
    /\ sphase = "failed" /\ ~model_ready
    /\ \A c \in Requests : resp[c] = 503
    /\ loadAttempts = 1 /\ loadFailures = 1
    /\ health_check.status = "loading"

\* ---- C17 ----
\* C17: encode runs only on the handle of a load attempt that has completed
\* successfully: whenever a thread is inside model.encode, its local `model`
\* is the handle of the manager, the manager is loaded, one attempt has
\* succeeded and that handle belongs to no attempt still in progress or
\* failing; no thread is inside encode with no handle.
C17_EncodeOnlyOnLoadedHandle ==
    \A p \in Procs :
        pc[p] = "enc97" =>
            /\ hnd[p] # 0
            /\ hnd[p] = model /\ modelLoaded
            /\ loadSuccesses = 1
            /\ \A q \in Procs : pc[q] \notin {"ld56", "ld63", "ld66", "ld73", "ld74"}

\* a thread is inside encode on the handle of the second attempt, after the
\* first attempt failed, while another thread is still at the lock
C17_Witness ==
    \E p, q \in Procs :
        /\ pc[p] = "enc97" /\ hnd[p] = 2 /\ model = 2
        /\ loadFailures = 1 /\ loadSuccesses = 1
        /\ pc[q] \in {"ld43", "ld44"}

\* ---- C18 ----
\* C18: with the manager loaded, get_model() returns the handle without
\* acquiring the shared lock: the check of line 78 goes straight to the
\* return of line 80 and neither step touches the lock, so both can be taken
\* while another thread holds the lock; the same holds for get_model() inside
\* a similarity call, which then goes on to encode.
C18_ReadyPathTakesNoLock ==
    /\ [][ \A p \in Procs :
             (is_ready /\ pc[p] = "gm78" /\ pc'[p] # "gm78") =>
                 /\ pc'[p] = "gm80"
                 /\ lock' = lock /\ tookLock'[p] = tookLock[p] ]_vars
    /\ [][ \A p \in Procs :
             (pc[p] = "gm80" /\ pc'[p] # "gm80") =>
                 /\ pc'[p] \in {"done", "enc97"}
                 /\ lock' = lock /\ tookLock'[p] = tookLock[p] ]_vars
    /\ [](\A p \in Procs :
             (is_ready /\ pc[p] \in {"gm78", "gm80"} /\ lock # 0 /\ lock # p) =>
                 ENABLED (get_model_check(p) \/ get_model_return(p)))

\* the manager is loaded and a thread still holds the lock; one call has
\* returned the handle and another is inside encode, neither having acquired
\* the lock
C18_Witness ==
    \E p \in Callers : \E q, r \in Procs :
        /\ is_ready /\ lock = r /\ r # p /\ r # q
        /\ Done(p, "get_model") /\ res[p] = <<"handle", model>> /\ ~tookLock[p]
        /\ pc[q] = "enc97" /\ ~tookLock[q]

\* ---- C19 ----
\* C19 as stated: the encode step is guarded: at most one thread, caller
\* thread or pool worker, is inside the backend's encode call at any time.
C19_EncodeOneAtATime ==
    Cardinality({p \in Procs : pc[p] = "enc97"}) <= 1

\* ---- C20 ----
\* C20 as stated: model_ready becomes true only after the model has loaded
\* and the warm-up similarity computation has completed without an encoding
\* fault; when the warm-up computation faults the service does not become
\* ready.
C20_ReadyOnlyAfterCleanWarmup ==
    /\ model_ready =>
           /\ is_ready
           /\ kind[1] = "sync" /\ pc[1] = "done"
           /\ t1[1] # "x" /\ t2[1] # "x"
    /\ (sphase \in {"warmup", "ready"} /\ pc[1] = "done" /\ (t1[1] = "x" \/ t2[1] = "x"))
           => ~model_ready

\* ---- C21 ----
\* C21: calculate_similarity_async does not block the event loop: an accepted
\* request to /similarity whose computation has begun and has not ended is
\* suspended at its await and does not hold the loop thread; while it waits,
\* unless another handler is running, the loop can answer a health check and
\* can take up another similarity request: check its flag, and make its call.
C21_AsyncLeavesLoopFree ==
    \A c \in Requests :
        (ServiceKind(c) = "async" /\ resp[c] = 1 /\ pc[c] \notin {"idle", "done"}) =>
            /\ pc[c] = "await" /\ ~HoldsLoop(c)
            /\ LoopFree(c) => LoopFree(0)
            /\ \A d \in Requests :
                   (LoopFree(d) /\ resp[d] = 0 /\ pc[d] = "idle") => ENABLED http_gate(d)
            /\ \A d \in Requests :
                   (LoopFree(d) /\ resp[d] = 1 /\ pc[d] = "idle") =>
                       ENABLED http_call(d, "a", "b")

\* a worker is inside encode for a request to /similarity that still waits,
\* and meanwhile the loop has accepted another request and has its score
C21_Witness ==
    \E c, d \in Requests : \E w \in Workers :
        /\ ServiceKind(c) = "async" /\ resp[c] = 1 /\ pc[c] = "await"
        /\ task[c] = "running" /\ wk[w] = c /\ pc[w] = "enc97"
        /\ d # c /\ resp[d] = 1 /\ pc[d] = "done" /\ res[d] = <<"score", 24>>

\* ---- C22 ----
\* C22: the class-level lock never deadlocks.  Every constructor call,
\* get_model call and similarity call that has started eventually ends (a
\* get_model call with the handle or with the exception of the load); the
\* lock is held only by a thread inside `with cls._lock` of __new__ or inside
\* `with self._lock` of _load_model_sync, and a load attempt releases it when
\* it returns (line 69) and when it raises (line 74).
C22_LockNeverDeadlocks ==
    /\ \A c \in Callers : (pc[c] \notin {"idle", "done"}) ~> (pc[c] \in {"idle", "done"})
    /\ [](\A c \in Callers :
             (kind[c] = "get_model" /\ pc[c] = "done") =>
                 res[c] \in {<<"handle", model>>, <<"raised", 0>>})
    /\ [](lock # 0 => pc[lock] \in {"new25", "ld44", "ld56", "ld63", "ld66", "ld69", "ld73", "ld74"})
    /\ [][ \A p \in Procs :
             (lock = p /\ pc[p] \in {"ld69", "ld74"} /\ pc'[p] # pc[p]) => lock' = 0 ]_vars

\* every thread has its manager and its call has ended, one load attempt
\* having failed and a later one succeeded; the lock is free
C22_Witness ==
    /\ \A c \in Callers : pc[c] = "done"
    /\ loadFailures >= 1 /\ loadSuccesses = 1
    /\ \E c \in Callers : res[c] = <<"raised", 0>>
    /\ lock = 0

\* ---- C23 ----
\* C23: when the load attempt of the startup hook has failed, model_ready is
\* false and stays false: no later step sets it, the service makes no further
\* load attempt (the one of the startup hook stays the only one), and every
\* similarity request that arrives from then on is answered 503; the manager
\* is left not loaded with its lock free, so that a get_model() would retry.
C23_FailedStartupStaysNotReady ==
    /\ [](sphase = "failed" =>
             /\ ~model_ready /\ ~is_ready
             /\ loadAttempts = 1 /\ loadFailures = 1
             /\ ~modelLoaded /\ lock = 0
             /\ \A p \in Procs : pc[p] \in {"idle", "done"})
    /\ [][ sphase = "failed" =>
             /\ sphase' = "failed" /\ ~model_ready'
             /\ loadAttempts' = loadAttempts
             /\ \A c \in Requests : (resp[c] = 0 /\ resp'[c] # 0) => resp'[c] = 503 ]_vars

\* the startup load failed, the requests that came afterwards were rejected,
\* and the service was shut down without ever having been ready
C23_Witness ==
    /\ sphase = "failed" /\ shut
    /\ res[1] = <<"raised", 0>>
    /\ \A c \in Requests : resp[c] = 503

\* ---- C24 ----
\* C24: an accepted request, to either similarity endpoint, whose encode call
\* raises in the backend is answered with status 'success' (200) and the raw
\* score 0.0; such a request is never answered 500.
C24_EncodeFaultAnsweredSuccess ==
    \A c \in Requests :
        ((t1[c] = "x" \/ t2[c] = "x") /\ resp[c] \notin {0, 1, 503}) =>
            /\ resp[c] = 200
            /\ res[c] = <<"score", 0>>

\* both endpoints have answered a request whose encode call raised
C24_Witness ==
    \E c, d \in Requests :
        /\ ServiceKind(c) = "sync" /\ ServiceKind(d) = "async"
        /\ t2[c] = "x" /\ t2[d] = "x"
        /\ resp[c] = 200 /\ resp[d] = 200
        /\ res[c] = <<"score", 0>> /\ res[d] = <<"score", 0>>
        /\ loadSuccesses = 1
====
